---------------------------- MODULE Spec2Model ----------------------------
(***************************************************************************)
(* Model of JoeSandbox/utils.py (Joe Sandbox -> Microsoft Sentinel threat  *)
(* intelligence connector).                                                *)
(*                                                                         *)
(*   SpecSubmit  : submit_indicator / create_indicator, the batched,       *)
(*                 authenticated submission with its retry loop.           *)
(*   SpecExtract : add_domain_indicators, add_url_indicators,              *)
(*                 add_ip_indicators, add_file_indicators and the helpers  *)
(*                 they call (str_to_bool, check_ip, generate_unique_id,   *)
(*                 get_static_data).                                       *)
(***************************************************************************)
EXTENDS Integers, Sequences, FiniteSets, TLC

VARIABLES
    \* ---- submit_indicator ------------------------------------------------
    indicators_list,    \* the argument of submit_indicator
    max_per_request,    \* SENTINEL_API.MAX_TI_INDICATORS_PER_REQUEST
    i,                  \* loop variable of submit_indicator (0-based offset)
    spc,                \* position in submit_indicator
    \* ---- create_indicator ------------------------------------------------
    retry,              \* parameter retry
    cpc,                \* position in create_indicator
    retry_count_429,    \* local retry_count_429
    retry_connection,   \* local retry_connection
    access_token,       \* attempt in which the held bearer token was issued
    \* ---- observations of the running call (history) ----------------------
    attempts,           \* passes through the while body in this call
    sleeps,             \* calls of sleep(SENTINEL_API.SLEEP) in this call
    authReqs,           \* POSTs to SENTINEL_API.AUTH_URL in this call
    postReqs,           \* POSTs to SENTINEL_API.URL in this call
    lastErr,            \* class of the error that ended the latest attempt
    onlyRetryable,      \* every attempt so far ended in a retryable-status HTTPError
    retriesHttp,        \* attempts started after a retryable-status HTTPError
    retriesConn,        \* attempts started after a connection-level error
    \* ---- observations of the whole submission (history) ------------------
    calls,              \* the arguments of the create_indicator calls, in order
    results,            \* how each finished call ended: "ok" or "raised"
    posted,             \* the batches whose ingestion POST succeeded, in order
    \* ---- category processors ---------------------------------------------
    category,           \* key of IOC_MAPPING_FUNCTION being run
    entries,            \* the list given to the processor
    analysis_data,      \* report metadata given to the processor
    idx,                \* entries consumed so far
    indicators,         \* local list `indicators` of the processor
    emitted,            \* per consumed entry: the indicators it appended (history)
    ppc                 \* position in the processor

submitVars == <<indicators_list, max_per_request, i, spc, retry, cpc,
                retry_count_429, retry_connection, access_token, attempts,
                sleeps, authReqs, postReqs, lastErr, onlyRetryable,
                retriesHttp, retriesConn, calls, results, posted>>
extractVars == <<category, entries, analysis_data, idx, indicators, emitted, ppc>>
vars == <<submitVars, extractVars>>

\* ------------------------------------------------------------------ bounds
MaxLen == 5
MaxPerRequest == 2
MaxRetry == 3
MaxEntries == 2

\* ============================ submission ================================

\* HTTP status codes an error response is drawn from.
ErrorStatus == {400, 429, 500}

\* const.RETRY_STATUS_CODE: the retryable (rate-limit / throttling) codes.
RETRY_STATUS_CODE == {429}

(***************************************************************************)
(* What one requests.post(...) followed by raise_for_status() (and, for    *)
(* the token request, .json().get) can do:                                 *)
(*   ok    - 2xx                                                           *)
(*   http  - HTTPError carrying a response with the given status.          *)
(*           `response` is the truth value of herr.response: a             *)
(*           requests.Response is falsy for every 4xx/5xx                  *)
(*           (Response.__bool__ returns .ok); a response object without    *)
(*           that __bool__ (a test double) is truthy.                      *)
(*   conn  - any other RequestException (ConnectionError, Timeout, ...)    *)
(*   other - any other Exception                                           *)
(***************************************************************************)
Outcomes ==
    {[kind |-> "ok", status |-> 200, response |-> "truthy"]}
    \cup [kind : {"http"}, status : ErrorStatus, response : {"falsy", "truthy"}]
    \cup {[kind |-> "conn", status |-> 0, response |-> "falsy"],
          [kind |-> "other", status |-> 0, response |-> "falsy"]}

\* How the spec's retry policy classes an error (by what it is, not by what
\* the code then does with it).
ErrClass(o) ==
    CASE o.kind = "http" /\ o.status \in RETRY_STATUS_CODE    -> "http_retryable"
      [] o.kind = "http" /\ o.status \notin RETRY_STATUS_CODE -> "http_nonretryable"
      [] o.kind = "conn"                                      -> "conn"
      [] OTHER                                                -> "other"

\* indicators_list[a : b] (0-based, end-exclusive, clipped to the list).
Min(a, b) == IF a <= b THEN a ELSE b
\* (faulty variant: the slice loses its last element)
Slice_drops_last(L, a, b) == SubSeq(L, a + 1, Min(b, Len(L)) - 1)
Slice(L, a, b) == SubSeq(L, a + 1, Min(b, Len(L)))

\* `while retry_count_429 <= retry`
LoopCondition(c, r) == c <= r

\* `if herr.response:` ... `if herr.response.status_code in RETRY_STATUS_CODE:`
\* (faulty variant: every HTTPError with a truthy response is retried)
IsRetryableHttp_any_status(o) == o.response = "truthy"
IsRetryableHttp(o) == o.response = "truthy" /\ o.status \in RETRY_STATUS_CODE

\* `if retry_connection < retry:`
\* (faulty variant: <= for <)
MayRetryConnection_off_by_one(rc, r) == rc <= r
MayRetryConnection(rc, r) == rc < r

InitExtractIdle ==
    /\ category = "none" /\ entries = <<>> /\ analysis_data = <<>>
    /\ idx = 0 /\ indicators = <<>> /\ emitted = <<>> /\ ppc = "idle"

InitSubmit ==
    /\ indicators_list \in {[k \in 1..n |-> k] : n \in 0..MaxLen}
    /\ max_per_request \in 1..MaxPerRequest
    /\ retry \in 0..MaxRetry
    /\ i = 0 /\ spc = "loop" /\ cpc = "none"
    /\ retry_count_429 = 0 /\ retry_connection = 0 /\ access_token = 0
    /\ attempts = 0 /\ sleeps = 0 /\ authReqs = 0 /\ postReqs = 0
    /\ lastErr = "none" /\ onlyRetryable = TRUE
    /\ retriesHttp = 0 /\ retriesConn = 0
    /\ calls = <<>> /\ results = <<>> /\ posted = <<>>
    /\ InitExtractIdle

\* submit_indicator's `except Exception: ... raise` around the loop.
\* (faulty variant: the exception is swallowed and the loop goes on)
SubmitOnRaise_swallow ==
    /\ spc' = "loop"
    /\ i' = i + max_per_request
SubmitOnRaise ==
    /\ spc' = "raised"
    /\ i' = i

\* A raise leaving create_indicator (lines 430, 444, 448, 450), and through
\* submit_indicator's handler.
Raise ==
    /\ cpc' = "raised"
    /\ results' = Append(results, "raised")
    /\ SubmitOnRaise
    /\ UNCHANGED <<retry_count_429, retry_connection, sleeps, posted>>

\* The except clauses of create_indicator.
HandleError(o) ==
    /\ lastErr' = ErrClass(o)
    /\ onlyRetryable' = (onlyRetryable /\ ErrClass(o) = "http_retryable")
    /\ CASE o.kind = "http" ->
              IF IsRetryableHttp(o)
              THEN /\ retry_count_429' = retry_count_429 + 1
                   /\ sleeps' = sleeps + 1
                   /\ cpc' = "sleep"
                   /\ UNCHANGED <<retry_connection, results, posted, spc, i>>
              ELSE Raise
         [] o.kind = "conn" ->
              IF MayRetryConnection(retry_connection, retry)
              THEN /\ retry_connection' = retry_connection + 1
                   /\ sleeps' = sleeps + 1
                   /\ cpc' = "sleep"
                   /\ UNCHANGED <<retry_count_429, results, posted, spc, i>>
              ELSE Raise
         [] OTHER -> Raise

\* One iteration of submit_indicator's for loop calls create_indicator with
\* the next slice; create_indicator initialises its locals and enters the
\* while loop.
StartBatch ==
    /\ spc = "loop"
    /\ i < Len(indicators_list)
    /\ calls' = Append(calls, Slice(indicators_list, i, i + max_per_request))
    /\ retry_count_429' = 0
    /\ retry_connection' = 0
    /\ access_token' = 0
    /\ sleeps' = 0 /\ authReqs' = 0 /\ postReqs' = 0
    /\ lastErr' = "none" /\ onlyRetryable' = TRUE
    /\ retriesHttp' = 0 /\ retriesConn' = 0
    /\ spc' = "in_call"
    /\ IF LoopCondition(0, retry)
       THEN /\ cpc' = "auth" /\ attempts' = 1
            /\ UNCHANGED <<results, i>>
       ELSE /\ attempts' = 0
            /\ cpc' = "raised"
            /\ results' = Append(results, "raised")
            /\ SubmitOnRaise
    /\ UNCHANGED <<indicators_list, max_per_request, retry, posted>>
    /\ UNCHANGED extractVars

\* The token request of an attempt.
Authenticate ==
    /\ cpc = "auth"
    /\ \E o \in Outcomes :
         /\ authReqs' = authReqs + 1
         /\ IF o.kind = "ok"
            THEN /\ access_token' = attempts
                 /\ cpc' = "submit"
                 /\ UNCHANGED <<retry_count_429, retry_connection, sleeps,
                                lastErr, onlyRetryable, results, posted, spc, i>>
            ELSE /\ HandleError(o)
                 /\ UNCHANGED access_token
    /\ UNCHANGED <<indicators_list, max_per_request, retry, attempts, postReqs,
                   retriesHttp, retriesConn, calls>>
    /\ UNCHANGED extractVars

\* The ingestion POST of an attempt; on success create_indicator returns and
\* submit_indicator's loop advances.
Submit ==
    /\ cpc = "submit"
    /\ \E o \in Outcomes :
         /\ postReqs' = postReqs + 1
         /\ IF o.kind = "ok"
            THEN /\ cpc' = "returned"
                 /\ results' = Append(results, "ok")
                 /\ posted' = Append(posted, calls[Len(calls)])
                 /\ i' = i + max_per_request
                 /\ spc' = "loop"
                 /\ UNCHANGED <<retry_count_429, retry_connection, sleeps,
                                lastErr, onlyRetryable>>
            ELSE HandleError(o)
    /\ UNCHANGED <<indicators_list, max_per_request, retry, attempts, authReqs,
                   access_token, retriesHttp, retriesConn, calls>>
    /\ UNCHANGED extractVars

\* sleep() returns, `continue`, and the while condition is evaluated again;
\* when it fails the statement after the loop raises.
Wake ==
    /\ cpc = "sleep"
    /\ IF LoopCondition(retry_count_429, retry)
       THEN /\ cpc' = "auth"
            /\ attempts' = attempts + 1
            /\ retriesHttp' = retriesHttp + (IF lastErr = "http_retryable" THEN 1 ELSE 0)
            /\ retriesConn' = retriesConn + (IF lastErr = "conn" THEN 1 ELSE 0)
            /\ UNCHANGED <<retry_count_429, retry_connection, sleeps, results,
                           posted, spc, i>>
       ELSE /\ Raise
            /\ UNCHANGED <<attempts, retriesHttp, retriesConn>>
    /\ UNCHANGED <<indicators_list, max_per_request, retry, access_token,
                   authReqs, postReqs, lastErr, onlyRetryable, calls>>
    /\ UNCHANGED extractVars

\* The for loop of submit_indicator is exhausted: return True.
ReturnTrue ==
    /\ spc = "loop"
    /\ i >= Len(indicators_list)
    /\ spc' = "returned"
    /\ UNCHANGED <<indicators_list, max_per_request, i, retry, cpc,
                   retry_count_429, retry_connection, access_token, attempts,
                   sleeps, authReqs, postReqs, lastErr, onlyRetryable,
                   retriesHttp, retriesConn, calls, results, posted>>
    /\ UNCHANGED extractVars

NextSubmit == StartBatch \/ Authenticate \/ Submit \/ Wake \/ ReturnTrue

SpecSubmit == InitSubmit /\ [][NextSubmit]_vars


\* ============================ extraction ================================

(***************************************************************************)
(* Python values.  A verdict flag is a tagged value so that bool, None,    *)
(* int and str stay distinct; a str is its sequence of characters.  Names, *)
(* IP literals and hash values are strings; NoneS stands for Python's None *)
(* in a string-typed slot.                                                 *)
(***************************************************************************)
PyBool(b) == [ty |-> "bool", b |-> b, n |-> 0, s |-> <<>>]
PyInt(n)  == [ty |-> "int", b |-> FALSE, n |-> n, s |-> <<>>]
PyStr(s)  == [ty |-> "str", b |-> FALSE, n |-> 0, s |-> s]
PyNone    == [ty |-> "none", b |-> FALSE, n |-> 0, s |-> <<>>]
PyRaise   == [ty |-> "raise", b |-> FALSE, n |-> 0, s |-> <<>>]
NoneS     == "<None>"

\* bool(value)
Truthy(v) ==
    CASE v.ty = "bool" -> v.b
      [] v.ty = "int"  -> v.n # 0
      [] v.ty = "str"  -> v.s # <<>>
      [] OTHER         -> FALSE

\* dict.get(key, default)
Get(d, key, default) == IF key \in DOMAIN d THEN d[key] ELSE default

\* f"{value}"
Fmt(v) == IF v = NoneS THEN "None" ELSE v

\* str.strip()
Whitespace == {" ", "\t", "\n"}
RECURSIVE LStrip(_)
LStrip(s) == IF s # <<>> /\ Head(s) \in Whitespace THEN LStrip(Tail(s)) ELSE s
RECURSIVE RStrip(_)
RStrip(s) ==
    IF s # <<>> /\ s[Len(s)] \in Whitespace THEN RStrip(SubSeq(s, 1, Len(s) - 1)) ELSE s
Strip(s) == RStrip(LStrip(s))

\* str.lower()
LowerChar(c) ==
    CASE c = "A" -> "a" [] c = "E" -> "e" [] c = "F" -> "f" [] c = "L" -> "l"
      [] c = "N" -> "n" [] c = "R" -> "r" [] c = "S" -> "s" [] c = "T" -> "t"
      [] c = "U" -> "u" [] c = "Y" -> "y" [] OTHER -> c
Lower(s) == [k \in 1..Len(s) |-> LowerChar(s[k])]

\* json.loads on the texts the model draws: the three literals and one-digit
\* numbers; anything else raises JSONDecodeError.
Loads(s) ==
    CASE s = <<"t", "r", "u", "e">>      -> PyBool(TRUE)
      [] s = <<"f", "a", "l", "s", "e">> -> PyBool(FALSE)
      [] s = <<"n", "u", "l", "l">>      -> PyNone
      [] s = <<"0">>                     -> PyInt(0)
      [] s = <<"1">>                     -> PyInt(1)
      [] OTHER                           -> PyRaise

\* str_to_bool
str_to_bool(value) ==
    IF value.ty = "str" THEN Loads(Lower(Strip(value.s))) ELSE PyBool(Truthy(value))

\* check_ip over the literals the model draws; None is NoneS.
check_ip(ip) ==
    CASE ip \in {"8.8.8.8", "10.0.0.1"} -> "ipv4-addr"
      [] ip \in {"2001:db8::1"}         -> "ipv6-addr"
      [] OTHER                          -> NoneS

\* Strings holding a lone surrogate (JSON "\ud800"): str.encode("utf-8"),
\* which uuid5 applies to its name, raises UnicodeEncodeError on them.
Unencodable == {"\\ud800.example", "\\ud800"}
CanEncode(v) == v \notin Unencodable

\* uuid5(namespace, name): a name-based digest, taken as collision free.
Uuid5(namespace, name) == "uuid5(" \o namespace \o "," \o name \o ")"

\* generate_unique_id (defined where CanEncode(indicator_value)).
generate_unique_id(indicator_type, indicator_value) ==
    "indicator--"
        \o Uuid5(Uuid5("NAMESPACE_DNS", "JoeSandbox"),
                 indicator_type \o ":" \o Fmt(indicator_value))

\* const.CONFIDENCE: detection verdict -> score.
CONFIDENCE == ("malicious" :> 100) @@ ("suspicious" :> 50) @@ ("clean" :> 10)

\* const.HASH_TYPE_LIST: (hash_type, key) pairs, in order.
HASH_TYPE_LIST == << <<"MD5", "md5">>, <<"SHA-1", "sha1">>, <<"SHA-256", "sha256">> >>

\* get_static_data (the clock-derived fields created, modified, valid_from
\* and valid_until are left out).
get_static_data(unique_uuid, ad, pattern, ioc_value, ioc_type) ==
    LET web_id == Get(ad, "webid", NoneS)
        det    == Get(ad, "detection", "")
    IN  [ type            |-> "indicator",
          id              |-> unique_uuid,
          labels          |-> << "web_id: " \o Fmt(web_id),
                                 "threat_names: " \o Fmt(Get(ad, "threatname", "")),
                                 "classification: " \o Fmt(Get(ad, "classification", "")),
                                 "detection: " \o Fmt(Get(ad, "detection", "")) >>,
          confidence      |-> IF det \in DOMAIN CONFIDENCE THEN CONFIDENCE[det] ELSE 0,
          name            |-> ioc_value,
          description     |-> "Analysis URL: BASE_URL/analysis/" \o Fmt(web_id),
          indicator_types |-> <<ioc_type>>,
          pattern         |-> pattern ]

(***************************************************************************)
(* The body of each processor's for loop on one entry.  The result tells   *)
(* whether an exception left the processor (raised) and which indicators   *)
(* the entry appended before the loop went on (out).  An entry is          *)
(* [ty, d]: ty = "dict" with d its mapping, or another type, on which      *)
(* .get raises AttributeError.                                             *)
(***************************************************************************)
Propagates == [raised |-> TRUE, out |-> <<>>]
Appends(out) == [raised |-> FALSE, out |-> out]

\* for domain in domains: (lines 37-50)
\* (faulty variant: the verdict test is missing)
AddDomainEntry_no_filter(e, ad) ==
    IF e.ty # "dict" THEN Propagates
    ELSE LET domain_value == Get(e.d, "name", NoneS)
             pattern == "[domain-name:value = '" \o Fmt(domain_value) \o "']"
         IN  IF ~CanEncode(domain_value) THEN Appends(<<>>)
             ELSE Appends(<< get_static_data(generate_unique_id("domain", domain_value),
                                             ad, pattern, domain_value, "domain") >>)
AddDomainEntry(e, ad) ==
    IF e.ty # "dict" THEN Propagates
    ELSE IF ~Truthy(Get(e.d, "malicious", PyNone)) THEN Appends(<<>>)
    ELSE LET domain_value == Get(e.d, "name", NoneS)
             pattern == "[domain-name:value = '" \o Fmt(domain_value) \o "']"
         IN  IF ~CanEncode(domain_value) THEN Appends(<<>>)
             ELSE Appends(<< get_static_data(generate_unique_id("domain", domain_value),
                                             ad, pattern, domain_value, "domain") >>)

\* for url_entry in urls: (lines 187-202)
AddUrlEntry(e, ad) ==
    IF e.ty # "dict" THEN Propagates
    ELSE IF ~Truthy(Get(e.d, "malicious", PyNone)) THEN Appends(<<>>)
    ELSE LET url_value == Get(e.d, "name", "")
             pattern == "[url:value = '" \o Fmt(url_value) \o "']"
         IN  IF ~CanEncode(url_value) THEN Appends(<<>>)
             ELSE Appends(<< get_static_data(generate_unique_id("url", url_value),
                                             ad, pattern, url_value, "url") >>)

\* for ip_entry in ips: (lines 147-166)
AddIpEntry(e, ad) ==
    IF e.ty # "dict" THEN Propagates
    ELSE LET verdict == str_to_bool(Get(e.d, "@malicious", PyNone))
         IN  IF verdict.ty = "raise" THEN Propagates
             ELSE IF ~Truthy(verdict) THEN Appends(<<>>)
             ELSE LET ip_add == Get(e.d, "$", "")
                      ip_type == check_ip(ip_add)
                      pattern == "[" \o ip_type \o ":value = '" \o Fmt(ip_add) \o "']"
                  IN  IF ip_type = NoneS THEN Appends(<<>>)
                      ELSE Appends(<< get_static_data(generate_unique_id("ip", ip_add),
                                                      ad, pattern, ip_add, ip_type) >>)

\* label = filename or hash_value
\* (faulty variant: no fallback to the hash value)
FileLabel_no_fallback(filename, hash_value) == filename
FileLabel(filename, hash_value) ==
    IF filename \notin {"", NoneS} THEN filename ELSE hash_value

\* for hash_type, key in HASH_TYPE_LIST: (lines 77-89), from the k-th pair
\* on; an exception ends the loop and keeps what was appended before it.
RECURSIVE FileHashLoop(_, _, _)
FileHashLoop(d, ad, k) ==
    IF k > Len(HASH_TYPE_LIST) THEN <<>>
    ELSE LET hash_type  == HASH_TYPE_LIST[k][1]
             hash_value == Get(d, HASH_TYPE_LIST[k][2], NoneS)
             filename   == Get(d, "name", "")
             pattern    == "[file:hashes.'" \o hash_type \o "' = '" \o Fmt(hash_value) \o "']"
         IN  IF hash_value \in {"", NoneS} THEN FileHashLoop(d, ad, k + 1)
             ELSE IF ~CanEncode(hash_value) THEN <<>>
             ELSE << get_static_data(generate_unique_id("file", hash_value), ad, pattern,
                                     FileLabel(filename, hash_value), "file") >>
                  \o FileHashLoop(d, ad, k + 1)

\* for file in files: (lines 72-92)
AddFileEntry(e, ad) ==
    IF e.ty # "dict" THEN Propagates
    ELSE IF ~Truthy(Get(e.d, "malicious", PyNone)) THEN Appends(<<>>)
    ELSE Appends(FileHashLoop(e.d, ad, 1))

\* IOC_MAPPING_FUNCTION
ProcessEntry(cat, e, ad) ==
    CASE cat = "domains" -> AddDomainEntry(e, ad)
      [] cat = "urls"    -> AddUrlEntry(e, ad)
      [] cat = "ips"     -> AddIpEntry(e, ad)
      [] OTHER           -> AddFileEntry(e, ad)

\* ---- the inputs drawn ----
Dict(d) == [ty |-> "dict", d |-> d]
NotADict == [ty |-> "str", d |-> <<>>]

DomainEntries ==
    { NotADict,
      Dict(("malicious" :> PyBool(TRUE))  @@ ("name" :> "evil.example")),
      Dict(("malicious" :> PyBool(TRUE))  @@ ("name" :> "c2.example")),
      Dict(("malicious" :> PyBool(FALSE)) @@ ("name" :> "good.example")),
      Dict(("name" :> "evil.example")),
      Dict(("malicious" :> PyBool(TRUE))  @@ ("name" :> "\\ud800.example")),
      Dict(("malicious" :> PyBool(TRUE))) }

UrlEntries ==
    { NotADict,
      Dict(("malicious" :> PyBool(TRUE))  @@ ("name" :> "http://evil.example/a")),
      Dict(("malicious" :> PyBool(FALSE)) @@ ("name" :> "http://good.example/")),
      Dict(("malicious" :> PyBool(TRUE))  @@ ("name" :> "\\ud800")),
      Dict(("malicious" :> PyBool(TRUE))) }

IpEntries ==
    { NotADict,
      Dict(("@malicious" :> PyStr(<<"t", "r", "u", "e">>)) @@ ("$" :> "8.8.8.8")),
      Dict(("@malicious" :> PyStr(<<" ", "T", "R", "U", "E", " ">>)) @@ ("$" :> "2001:db8::1")),
      Dict(("@malicious" :> PyStr(<<"F", "a", "l", "s", "e">>)) @@ ("$" :> "10.0.0.1")),
      Dict(("@malicious" :> PyBool(TRUE)) @@ ("$" :> "10.0.0.1")),
      Dict(("@malicious" :> PyStr(<<"y", "e", "s">>)) @@ ("$" :> "8.8.8.8")),
      Dict(("@malicious" :> PyStr(<<"t", "r", "u", "e">>)) @@ ("$" :> "not-an-ip")),
      Dict(("$" :> "8.8.8.8")),
      Dict(("@malicious" :> PyStr(<<"1">>))) }

\* Digests (shortened): values of different algorithms differ in length.
Md5A    == "0cc175b9"
Sha1A   == "86f7e437fa"
Sha256A == "ca978112ca1bbdca"
Md5B    == "92eb5ffe"

FileEntries ==
    { NotADict,
      Dict(("malicious" :> PyBool(TRUE)) @@ ("name" :> "a.exe") @@ ("md5" :> Md5A)
           @@ ("sha1" :> Sha1A) @@ ("sha256" :> Sha256A)),
      Dict(("malicious" :> PyBool(TRUE)) @@ ("md5" :> Md5A)
           @@ ("sha1" :> Sha1A) @@ ("sha256" :> Sha256A)),
      Dict(("malicious" :> PyBool(TRUE)) @@ ("name" :> "") @@ ("md5" :> Md5B)
           @@ ("sha1" :> "")),
      Dict(("malicious" :> PyBool(TRUE)) @@ ("name" :> "b.dll") @@ ("sha1" :> "")
           @@ ("sha256" :> Sha256A)),
      Dict(("malicious" :> PyBool(FALSE)) @@ ("name" :> "c.txt") @@ ("md5" :> Md5B)),
      Dict(("malicious" :> PyBool(TRUE)) @@ ("name" :> "d.bin") @@ ("md5" :> Md5B)
           @@ ("sha1" :> "\\ud800") @@ ("sha256" :> Sha256A)),
      Dict(("malicious" :> PyBool(TRUE)) @@ ("name" :> "e.bin")) }

EntriesOf(cat) ==
    CASE cat = "domains" -> DomainEntries
      [] cat = "urls"    -> UrlEntries
      [] cat = "ips"     -> IpEntries
      [] OTHER           -> FileEntries

Categories == {"domains", "urls", "ips", "files"}

\* Report metadata: each of the four fields present or missing; a present
\* detection verdict is in the confidence table or not.
MetaValues(key) ==
    CASE key = "webid"          -> {"4711"}
      [] key = "threatname"     -> {"Emotet"}
      [] key = "classification" -> {"trojan"}
      [] OTHER                  -> {"malicious", "unheard-of"}
MetaKeys == {"webid", "threatname", "classification", "detection"}
AnalysisData ==
    UNION { {f \in [K -> UNION {MetaValues(k) : k \in K}] :
                \A k \in K : f[k] \in MetaValues(k)} : K \in SUBSET MetaKeys }

InitSubmitIdle ==
    /\ indicators_list = <<>> /\ max_per_request = 1 /\ retry = 0
    /\ i = 0 /\ spc = "idle" /\ cpc = "none"
    /\ retry_count_429 = 0 /\ retry_connection = 0 /\ access_token = 0
    /\ attempts = 0 /\ sleeps = 0 /\ authReqs = 0 /\ postReqs = 0
    /\ lastErr = "none" /\ onlyRetryable = TRUE
    /\ retriesHttp = 0 /\ retriesConn = 0
    /\ calls = <<>> /\ results = <<>> /\ posted = <<>>

InitExtract ==
    /\ category \in Categories
    /\ entries \in UNION {[1..n -> EntriesOf(category)] : n \in 0..MaxEntries}
    /\ analysis_data \in AnalysisData
    /\ idx = 0 /\ indicators = <<>> /\ emitted = <<>> /\ ppc = "loop"
    /\ InitSubmitIdle

\* One pass of the processor's for loop.
LoopStep(cat) ==
    /\ ppc = "loop"
    /\ category = cat
    /\ idx < Len(entries)
    /\ LET r == ProcessEntry(cat, entries[idx + 1], analysis_data)
       IN  IF r.raised
           THEN /\ ppc' = "raised"
                /\ UNCHANGED <<idx, indicators, emitted>>
           ELSE /\ indicators' = indicators \o r.out
                /\ emitted' = Append(emitted, r.out)
                /\ idx' = idx + 1
                /\ ppc' = "loop"
    /\ UNCHANGED <<category, entries, analysis_data>>
    /\ UNCHANGED submitVars

add_domain_indicators == LoopStep("domains")
add_url_indicators == LoopStep("urls")
add_ip_indicators == LoopStep("ips")
add_file_indicators == LoopStep("files")

\* `return indicators`
ReturnIndicators ==
    /\ ppc = "loop"
    /\ idx = Len(entries)
    /\ ppc' = "done"
    /\ UNCHANGED <<category, entries, analysis_data, idx, indicators, emitted>>
    /\ UNCHANGED submitVars

NextExtract ==
    \/ add_domain_indicators
    \/ add_url_indicators
    \/ add_ip_indicators
    \/ add_file_indicators
    \/ ReturnIndicators

SpecExtract == InitExtract /\ [][NextExtract]_vars

\* ------------------------------------------------ properties: submission

RECURSIVE Flatten(_)
Flatten(ss) == IF ss = <<>> THEN <<>> ELSE Head(ss) \o Flatten(Tail(ss))

Ceil(n, d) == (n + d - 1) \div d

NumOk == Cardinality({k \in 1..Len(results) : results[k] = "ok"})

\* C1: when every attempt of a create_indicator call ended in an HTTPError
\* with a retryable status, the call raises after exactly retry + 1 attempts
\* and exactly retry sleeps.
C1_RetryExhaustion ==
    (cpc = "raised" /\ attempts >= 1 /\ onlyRetryable)
        => (attempts = retry + 1 /\ sleeps = retry)

\* C2: an attempt ending in an HTTPError with a non-retryable status, or in
\* an unexpected (non-RequestException) error, makes the call raise at once:
\* no sleep and no new attempt follow it, nothing more is sent for the batch
\* (nor for any later one), and when it was the first attempt exactly one
\* attempt was made and no sleep occurred.
C2_NonRetryableShortCircuit ==
    lastErr \in {"http_nonretryable", "other"} =>
        /\ cpc = "raised"
        /\ spc = "raised"
        /\ sleeps = retry_count_429 + retry_connection
        /\ attempts = 1 + retriesHttp + retriesConn
        /\ authReqs = attempts /\ postReqs <= attempts
        /\ attempts = 1 => (sleeps = 0 /\ authReqs = 1 /\ postReqs <= 1)
        /\ ~ENABLED NextSubmit

C2_Witness ==
    /\ lastErr = "http_nonretryable" /\ cpc = "raised"
    /\ attempts = 1 /\ sleeps = 0 /\ postReqs = 1

\* C3: the create_indicator calls are consecutive slices of indicators_list
\* in original order, each non-empty and of at most max_per_request
\* indicators, all but the last of exactly max_per_request; when every batch
\* succeeded there are ceil(len / max_per_request) calls and their
\* concatenation is indicators_list.
C3_BatchPartition ==
    LET n == Len(indicators_list)
        flat == Flatten(calls)
    IN  /\ Len(flat) <= n
        /\ flat = SubSeq(indicators_list, 1, Len(flat))
        /\ \A k \in 1..Len(calls) :
              /\ Len(calls[k]) >= 1
              /\ Len(calls[k]) <= max_per_request
              /\ (k < Len(calls) => Len(calls[k]) = max_per_request)
        /\ spc = "returned" =>
              /\ Len(calls) = Ceil(n, max_per_request)
              /\ flat = indicators_list

C3_Witness ==
    /\ spc = "returned"
    /\ Len(calls) = 3
    /\ Len(calls[1]) = 2 /\ Len(calls[2]) = 2 /\ Len(calls[3]) = 1

\* C5: batches are submitted one after another and the submission stops at
\* the first failed one: a call is only ever started when all earlier calls
\* returned; after a call raised, submit_indicator has raised, no later
\* batch is ever sent, and the batches before it stay posted exactly once
\* each, in order; submit_indicator returns True only if every batch was
\* posted.
C5_SequentialFailFast ==
    /\ Len(calls) \in {Len(results), Len(results) + 1}
    /\ (cpc \in {"auth", "submit", "sleep"}) <=> (Len(calls) = Len(results) + 1)
    /\ \A k \in 1..(Len(calls) - 1) : results[k] = "ok"
    /\ posted = SubSeq(calls, 1, NumOk)
    /\ spc = "raised" =>
          /\ results # <<>>
          /\ results[Len(results)] = "raised"
          /\ Len(calls) = Len(results)
          /\ NumOk = Len(results) - 1
          /\ ~ENABLED NextSubmit
    /\ spc = "returned" =>
          /\ \A k \in 1..Len(results) : results[k] = "ok"
          /\ Len(results) = Ceil(Len(indicators_list), max_per_request)
          /\ Flatten(posted) = indicators_list

C5_Witness ==
    /\ spc = "raised"
    /\ results = <<"ok", "raised">>
    /\ Len(posted) = 1
    /\ Len(indicators_list) > 2 * max_per_request

RECURSIVE RunProcessor(_, _, _)
RunProcessor(cat, list, ad) ==
    IF list = <<>> THEN Appends(<<>>)
    ELSE LET r == ProcessEntry(cat, Head(list), ad)
         IN  IF r.raised THEN Propagates
             ELSE LET rest == RunProcessor(cat, Tail(list), ad)
                  IN  IF rest.raised THEN Propagates ELSE Appends(r.out \o rest.out)

\* An entry whose processing runs into an error: an entry that is not a
\* mapping, an IP verdict that does not parse, or a value of a malicious
\* entry from which no identifier can be derived.
BadEntry(cat, e) ==
    \/ e.ty # "dict"
    \/ /\ e.ty = "dict" /\ cat = "ips"
       /\ str_to_bool(Get(e.d, "@malicious", PyNone)).ty = "raise"
    \/ /\ e.ty = "dict" /\ cat \in {"domains", "urls"}
       /\ Truthy(Get(e.d, "malicious", PyNone))
       /\ ~CanEncode(Get(e.d, "name", ""))
    \/ /\ e.ty = "dict" /\ cat = "files"
       /\ Truthy(Get(e.d, "malicious", PyNone))
       /\ \E k \in 1..Len(HASH_TYPE_LIST) : ~CanEncode(Get(e.d, HASH_TYPE_LIST[k][2], ""))

\* C4: a failure on one entry never leaves the processor; the entry is
\* skipped and the processor returns the indicators it would return for the
\* list without the failing entries.
C4_PerEntryIsolation ==
    LET Good(e) == ~BadEntry(category, e)
    IN  /\ ppc # "raised"
        /\ ppc = "done" =>
              indicators = RunProcessor(category, SelectSeq(entries, Good), analysis_data).out

\* A well-formed domain entry: a mapping with a boolean verdict and a name from
\* which an identifier can be derived.
WellFormedDomain(e) ==
    /\ e.ty = "dict"
    /\ DOMAIN e.d = {"malicious", "name"}
    /\ e.d["malicious"].ty = "bool"
    /\ CanEncode(e.d["name"])

IsMaliciousDomain(e) == e.d["malicious"].b

MaliciousFile(e) ==
    /\ e.ty = "dict"
    /\ Truthy(Get(e.d, "malicious", PyNone))
    /\ ~BadEntry("files", e)

HasHash(pair, e) == Get(e.d, pair[2], "") # ""

\* The (hash_type, key) pairs of the supported algorithms for which the
\* entry carries a non-empty value, in the fixed order.
PresentHashes(e) ==
    LET Present(pair) == HasHash(pair, e) IN SelectSeq(HASH_TYPE_LIST, Present)

HasFilename(e) == Get(e.d, "name", "") # ""

FanOutShape(e, out) ==
    LET present == PresentHashes(e)
    IN  /\ Len(out) = Len(present)
        /\ \A k \in 1..Len(out) :
              out[k].pattern = "[file:hashes.'" \o present[k][1] \o "' = '"
                                   \o e.d[present[k][2]] \o "']"
        /\ \A k, m \in 1..Len(out) :
              k # m => (out[k].pattern # out[m].pattern /\ out[k].id # out[m].id)

OrEmpty(key) == IF key \in DOMAIN analysis_data THEN analysis_data[key] ELSE ""

FullMeta ==
    ("webid" :> "4711") @@ ("threatname" :> "Emotet") @@ ("classification" :> "trojan")
        @@ ("detection" :> "malicious")

\* C9: whichever of webid, threatname, classification and detection are
\* missing, get_static_data still builds the indicator (as many indicators
\* come out as for complete metadata), the label of each missing field
\* carries the empty string, and a detection verdict that is not in the
\* confidence table, a missing one included, gives confidence 0.
C9_MetadataDefaults ==
    /\ ppc = "done" =>
          Len(indicators) = Len(RunProcessor(category, entries, FullMeta).out)
    /\ \A k \in 1..Len(indicators) :
          /\ indicators[k].labels =
                << "web_id: " \o OrEmpty("webid"),
                   "threat_names: " \o OrEmpty("threatname"),
                   "classification: " \o OrEmpty("classification"),
                   "detection: " \o OrEmpty("detection") >>
          /\ OrEmpty("detection") \notin DOMAIN CONFIDENCE => indicators[k].confidence = 0

=============================================================================
